---------------------------- MODULE Spec2Model ----------------------------
(***************************************************************************)
(* Projectile trajectory under altitude-dependent gravity, integrated by   *)
(* classical RK4 (src/main.cpp).                                           *)
(*                                                                         *)
(* The program computes in IEEE binary floating point (double).  The model *)
(* keeps that arithmetic: a number is sign * mantissa * 2^exponent with a  *)
(* Prec-bit mantissa, and every operation rounds its exact result to the   *)
(* nearest representable number, ties to even, as the hardware does.  The  *)
(* mantissa is narrower than a double's 53 bits and the exponent is not    *)
(* limited (no overflow to infinity, no subnormals).                       *)
(***************************************************************************)
EXTENDS Integers, Sequences, FiniteSets, TLC

\* Width of the mantissa in bits (13 .. 21 with the two-limb product below).
Prec == 20

\* Largest step / report count the history counters distinguish.
MaxSteps == 4

-----------------------------------------------------------------------------
(* Floating point                                                          *)

Float == [s : {-1, 1}, m : Nat, e : Int]

Zero == [s |-> 1, m |-> 0, e |-> 0]

\* The operations are functions, so that an operand is evaluated once.
BitLen[n \in Nat] == IF n = 0 THEN 0 ELSE 1 + BitLen[n \div 2]

\* The float nearest to s * (n + f) * 2^e, where 0 <= f < 1 and f # 0 iff
\* sticky; ties go to the even mantissa.
Round[s \in {-1, 1}, n \in Nat, e \in Int, sticky \in BOOLEAN] ==
  IF n = 0 THEN Zero
  ELSE LET b == BitLen[n] IN
       IF b <= Prec
       THEN [s |-> s, m |-> n * 2^(Prec - b), e |-> e - (Prec - b)]
       ELSE LET k    == b - Prec
                q    == n \div 2^k
                r    == n % 2^k
                half == 2^(k - 1)
                up   == r > half \/ (r = half /\ (sticky \/ q % 2 = 1))
                q1   == IF up THEN q + 1 ELSE q
            IN  IF q1 = 2^Prec
                THEN [s |-> s, m |-> 2^(Prec - 1), e |-> e + k + 1]
                ELSE [s |-> s, m |-> q1, e |-> e + k]

\* Binary expansion of (acc + r/d), one bit at a time, until Prec + 2
\* significant bits are known or the expansion ends.
RatBits[acc \in Nat, r \in Nat, d \in Nat, e \in Int] ==
  IF acc >= 2^(Prec + 1) \/ r = 0
  THEN <<acc, r, e>>
  ELSE IF 2 * r >= d
       THEN RatBits[2 * acc + 1, 2 * r - d, d, e - 1]
       ELSE RatBits[2 * acc, 2 * r, d, e - 1]

\* The float nearest to s * n / d  (n >= 0, d > 0).
RoundRat[s \in {-1, 1}, n \in Nat, d \in Nat] ==
  LET t == RatBits[n \div d, n % d, d, 0]
  IN  Round[s, t[1], t[3], t[2] # 0]

\* A decimal literal s * n * 10^(-k), as the compiler, strtod and
\* operator>> convert it.
Dec(s, n, k) == RoundRat[s, n, 10^k]

FNeg[x \in Float] == [x EXCEPT !.s = IF x.m = 0 THEN 1 ELSE -x.s]

Sign[x \in Float] == IF x.m = 0 THEN 0 ELSE x.s

\* x + y, rounded.  The operand of larger magnitude carries three guard
\* bits; the bits of the smaller one that fall below them are sticky.
FAdd[x \in Float, y \in Float] ==
  IF x.m = 0 THEN y
  ELSE IF y.m = 0 THEN x
  ELSE LET xbig == x.e > y.e \/ (x.e = y.e /\ x.m >= y.m)
           big  == IF xbig THEN x ELSE y
           sml  == IF xbig THEN y ELSE x
           d    == big.e - sml.e
           A    == big.m * 8
           B    == IF d <= 3 THEN sml.m * 2^(3 - d)
                   ELSE IF d - 3 >= Prec THEN 0
                   ELSE sml.m \div 2^(d - 3)
           st   == IF d <= 3 THEN FALSE
                   ELSE IF d - 3 >= Prec THEN TRUE
                   ELSE sml.m % 2^(d - 3) # 0
       IN  IF big.s = sml.s
           THEN Round[big.s, A + B, big.e - 3, st]
           ELSE IF st THEN Round[big.s, A - B - 1, big.e - 3, TRUE]
                ELSE Round[big.s, A - B, big.e - 3, FALSE]

FSub[x \in Float, y \in Float] == FAdd[x, FNeg[y]]

Limb == 2^11

\* x * y, rounded.  The exact product is formed in two 22-bit limbs.
FMul[x \in Float, y \in Float] ==
  IF x.m = 0 \/ y.m = 0 THEN Zero
  ELSE LET a   == x.m \div Limb
           b   == x.m % Limb
           c   == y.m \div Limb
           dd  == y.m % Limb
           mid == a * dd + b * c
           lo0 == (mid % Limb) * Limb + b * dd
           hi  == a * c + (mid \div Limb) + (lo0 \div (Limb * Limb))
           lo  == lo0 % (Limb * Limb)
           t   == Prec + 2 - BitLen[hi]
           n   == hi * 2^t + (lo \div 2^(22 - t))
           st  == lo % 2^(22 - t) # 0
       IN  Round[x.s * y.s, n, x.e + y.e + 22 - t, st]

\* x / y, rounded  (y # 0).
FDiv[x \in Float, y \in Float] ==
  IF x.m = 0 THEN Zero
  ELSE LET t == RatBits[x.m \div y.m, x.m % y.m, y.m, 0]
       IN  Round[x.s * y.s, t[1], t[3] + x.e - y.e, t[2] # 0]

FLt[x \in Float, y \in Float] == Sign[FSub[x, y]] = -1
FLe[x \in Float, y \in Float] == Sign[FSub[x, y]] # 1
FGt[x \in Float, y \in Float] == FLt[y, x]
FGe[x \in Float, y \in Float] == FLe[y, x]

-----------------------------------------------------------------------------
(* Constants of the program and of its literals                            *)

g       == Dec(-1, 980665, 5)
re      == Dec(1, 6371000, 0)
a       == Dec(1, 0, 0)
pi      == Dec(1, 314159265, 8)
deg2rad == FDiv[pi, Dec(1, 180, 0)]

One    == Dec(1, 1, 0)
Two    == Dec(1, 2, 0)
Six    == Dec(1, 6, 0)
Ninety == Dec(1, 90, 0)

\* sin and cos of the C library, by their Taylor series in Horner form,
\* evaluated in the program's arithmetic; accurate to a few units in the
\* last place for |x| <= 2.1, the range of the angles below.
Horner(x2, ds) ==
  LET RECURSIVE H(_)
      H(i) == IF i > Len(ds) THEN One
              ELSE FSub[One, FMul[FDiv[x2, Dec(1, ds[i], 0)], H(i + 1)]]
  IN  H(1)

sin(x) == FMul[x, Horner(FMul[x, x], <<6, 20, 42, 72, 110, 156, 210>>)]
cos(x) == Horner(FMul[x, x], <<2, 12, 30, 56, 90, 132, 182>>)

-----------------------------------------------------------------------------
(* Physics model and integrator stages                                     *)

\* Mutant: the sign of the gravitational acceleration is lost.
computeVertAccUpward(state) ==
  FMul[FMul[FNeg[g], FDiv[re, FAdd[re, state.vertPos]]],
       FDiv[re, FAdd[re, state.vertPos]]]

computeVertAcc(state) ==
  FMul[FMul[g, FDiv[re, FAdd[re, state.vertPos]]],
       FDiv[re, FAdd[re, state.vertPos]]]

\* Mutant: a horizontal force, here of the size of gravity.
computeHorzAccForced(state) == g

computeHorzAcc(state) == a

evaluate(q) ==
  [vertVel |-> q.vertVel,
   vertAcc |-> computeVertAcc(q),
   horzVel |-> q.horzVel,
   horzAcc |-> computeHorzAcc(q)]

\* The intermediate state of the three-argument evaluate.
EulerState(initP, dt, pPrime) ==
  [vertPos |-> FAdd[initP.vertPos, FMul[pPrime.vertVel, dt]],
   vertVel |-> FAdd[initP.vertVel, FMul[pPrime.vertAcc, dt]],
   horzPos |-> FAdd[initP.horzPos, FMul[pPrime.horzVel, dt]],
   horzVel |-> FAdd[initP.horzVel, FMul[pPrime.horzAcc, dt]]]

evaluateAt(initP, dt, pPrime) ==
  LET q == EulerState(initP, dt, pPrime)
  IN  [vertVel |-> q.vertVel,
       vertAcc |-> computeVertAcc(q),
       horzVel |-> q.horzVel,
       horzAcc |-> computeHorzAcc(q)]

\* Mutant: the midpoint stages are not counted twice.
WeightedPlain(c1, c2, c3, c4) ==
  FDiv[FAdd[FAdd[c1, FAdd[c2, c3]], c4], Six]

\* (k1 + 2. * (k2 + k3) + k4) / 6.
Weighted(c1, c2, c3, c4) ==
  FDiv[FAdd[FAdd[c1, FMul[Two, FAdd[c2, c3]]], c4], Six]

\* Mutant: the averaged vertical velocity is added without the time step.
NewStateNoDt(state, dt, d1, d2, d3, d4) ==
  LET deltaVertVel == Weighted(d1.vertVel, d2.vertVel, d3.vertVel, d4.vertVel)
      deltaVertAcc == Weighted(d1.vertAcc, d2.vertAcc, d3.vertAcc, d4.vertAcc)
      deltaHorzVel == Weighted(d1.horzVel, d2.horzVel, d3.horzVel, d4.horzVel)
      deltaHorzAcc == Weighted(d1.horzAcc, d2.horzAcc, d3.horzAcc, d4.horzAcc)
  IN  [vertPos |-> FAdd[state.vertPos, deltaVertVel],
       vertVel |-> FAdd[state.vertVel, FMul[deltaVertAcc, dt]],
       horzPos |-> FAdd[state.horzPos, FMul[deltaHorzVel, dt]],
       horzVel |-> FAdd[state.horzVel, FMul[deltaHorzAcc, dt]]]

\* The state rk4 writes back.
NewState(state, dt, d1, d2, d3, d4) ==
  LET deltaVertVel == Weighted(d1.vertVel, d2.vertVel, d3.vertVel, d4.vertVel)
      deltaVertAcc == Weighted(d1.vertAcc, d2.vertAcc, d3.vertAcc, d4.vertAcc)
      deltaHorzVel == Weighted(d1.horzVel, d2.horzVel, d3.horzVel, d4.horzVel)
      deltaHorzAcc == Weighted(d1.horzAcc, d2.horzAcc, d3.horzAcc, d4.horzAcc)
  IN  [vertPos |-> FAdd[state.vertPos, FMul[deltaVertVel, dt]],
       vertVel |-> FAdd[state.vertVel, FMul[deltaVertAcc, dt]],
       horzPos |-> FAdd[state.horzPos, FMul[deltaHorzVel, dt]],
       horzVel |-> FAdd[state.horzVel, FMul[deltaHorzAcc, dt]]]

\* Mutant: || for &&.
LoopCondEither(t, fin, q) == FLt[t, fin] \/ FGe[q.vertPos, Zero]

\* Mutant: the ground test is missing.
LoopCondTimeOnly(t, fin, q) == FLt[t, fin]

\* while (currentTime < finalTime && p.vertPos >= 0.0)
LoopCond(t, fin, q) == FLt[t, fin] /\ FGe[q.vertPos, Zero]

-----------------------------------------------------------------------------
(* Inputs: what the user types or passes, as decimal literals <<s, n, k>>  *)
(* meaning s * n * 10^(-k); Bad is text that does not parse as a number.   *)

Bad == <<0, 0, 0>>

AltLits == {<<-1, 5, 0>>, <<1, 0, 0>>, <<1, 4, 0>>}
AngLits == {<<-1, 10, 0>>, <<1, 0, 0>>, <<1, 45, 0>>, <<1, 90, 0>>, <<1, 120, 0>>}
VelLits == {<<1, 0, 0>>, <<1, 99, 2>>, <<1, 100, 0>>}
DtLits  == {<<-1, 1, 0>>, <<1, 0, 0>>, <<1, 1, 2>>, <<1, 1, 0>>}
FinLits == {<<-1, 1, 0>>, <<1, 0, 0>>, <<1, 3, 2>>, <<1, 2, 0>>}

\* strtod: the value of the text, 0.0 when no conversion can be performed.
strtod(tok) == IF tok = Bad THEN Zero ELSE Dec(tok[1], tok[2], tok[3])

\* cin >> x: the value stored (0 on a failed extraction).
Extract(tok) == IF tok = Bad THEN Zero ELSE Dec(tok[1], tok[2], tok[3])

-----------------------------------------------------------------------------
(* State                                                                   *)

VARIABLES
  pc,           \* position in main / rk4
  initAlt, initVel, firingAngle, deltaTime, finalTime,
  p,            \* State p
  currentTime,
  k1, k2, k3, k4,   \* rk4's locals
  out,          \* the last block written to cout by the loop body
  entry,        \* history: p as it was when rk4 was last entered
  nsteps,       \* history: completed rk4 calls, counted up to MaxSteps
  nreports      \* history: blocks written, counted up to MaxSteps

inputs == <<initAlt, initVel, firingAngle, deltaTime, finalTime>>
locals == <<k1, k2, k3, k4>>
hist   == <<entry, nsteps, nreports>>
vars   == <<pc, inputs, p, currentTime, locals, out, hist>>

State0 == [vertPos |-> Zero, horzPos |-> Zero, vertVel |-> Zero, horzVel |-> Zero]
Deriv0 == [vertVel |-> Zero, vertAcc |-> Zero, horzVel |-> Zero, horzAcc |-> Zero]
NoOut  == [t |-> Zero, vertPos |-> Zero, vertVel |-> Zero,
           horzPos |-> Zero, horzVel |-> Zero]

Bump(n) == IF n < MaxSteps THEN n + 1 ELSE n

Init ==
  /\ pc = "start"
  /\ initAlt = Zero /\ initVel = Zero /\ firingAngle = Zero
  /\ deltaTime = Zero /\ finalTime = Zero
  /\ p = State0
  /\ currentTime = Zero
  /\ k1 = Deriv0 /\ k2 = Deriv0 /\ k3 = Deriv0 /\ k4 = Deriv0
  /\ out = NoOut
  /\ entry = State0
  /\ nsteps = 0 /\ nreports = 0

-----------------------------------------------------------------------------
(* main: input acquisition                                                 *)

\* argc != 6: prompt for the parameters.
PromptStart ==
  /\ pc = "start"
  /\ pc' = "prompt_alt"
  /\ UNCHANGED <<inputs, p, currentTime, locals, out, hist>>

\* argc == 6: the five arguments through strtod, unchecked.
ParseArgs ==
  /\ pc = "start"
  /\ \E t1 \in AltLits \cup {Bad}, t2 \in VelLits \cup {Bad},
        t3 \in AngLits \cup {Bad}, t4 \in DtLits \cup {Bad},
        t5 \in FinLits \cup {Bad} :
       /\ initAlt' = strtod(t1)
       /\ initVel' = strtod(t2)
       /\ firingAngle' = strtod(t3)
       /\ deltaTime' = strtod(t4)
       /\ finalTime' = strtod(t5)
  /\ pc' = "to_radians"
  /\ UNCHANGED <<p, currentTime, locals, out, hist>>

\* One extraction of the altitude; repeated while cin.fail().
ReadAlt ==
  /\ pc = "prompt_alt"
  /\ \E tok \in AltLits \cup {Bad} :
       /\ initAlt' = Extract(tok)
       /\ pc' = IF tok = Bad THEN "prompt_alt" ELSE "prompt_angle"
  /\ UNCHANGED <<initVel, firingAngle, deltaTime, finalTime,
                 p, currentTime, locals, out, hist>>

\* One extraction of the angle; repeated while it failed or the value is
\* outside 0 .. 90.
ReadAngle ==
  /\ pc = "prompt_angle"
  /\ \E tok \in AngLits \cup {Bad} :
       /\ firingAngle' = Extract(tok)
       /\ pc' = IF tok = Bad \/ FLt[Extract(tok), Zero] \/ FGt[Extract(tok), Ninety]
                THEN "prompt_angle" ELSE "prompt_vel"
  /\ UNCHANGED <<initAlt, initVel, deltaTime, finalTime,
                 p, currentTime, locals, out, hist>>

ReadVel ==
  /\ pc = "prompt_vel"
  /\ \E tok \in VelLits \cup {Bad} :
       /\ initVel' = Extract(tok)
       /\ pc' = IF tok = Bad THEN "prompt_vel" ELSE "prompt_dt"
  /\ UNCHANGED <<initAlt, firingAngle, deltaTime, finalTime,
                 p, currentTime, locals, out, hist>>

\* One extraction of the time step; repeated while it failed or is < 0.
ReadDt ==
  /\ pc = "prompt_dt"
  /\ \E tok \in DtLits \cup {Bad} :
       /\ deltaTime' = Extract(tok)
       /\ pc' = IF tok = Bad \/ FLt[Extract(tok), Zero]
                THEN "prompt_dt" ELSE "prompt_final"
  /\ UNCHANGED <<initAlt, initVel, firingAngle, finalTime,
                 p, currentTime, locals, out, hist>>

ReadFinal ==
  /\ pc = "prompt_final"
  /\ \E tok \in FinLits \cup {Bad} :
       /\ finalTime' = Extract(tok)
       /\ pc' = IF tok = Bad \/ FLt[Extract(tok), Zero]
                THEN "prompt_final" ELSE "to_radians"
  /\ UNCHANGED <<initAlt, initVel, firingAngle, deltaTime,
                 p, currentTime, locals, out, hist>>

-----------------------------------------------------------------------------
(* main: set-up and the driving loop                                       *)

\* firingAngle *= deg2rad
ToRadians ==
  /\ pc = "to_radians"
  /\ firingAngle' = FMul[firingAngle, deg2rad]
  /\ pc' = "setup"
  /\ UNCHANGED <<initAlt, initVel, deltaTime, finalTime,
                 p, currentTime, locals, out, hist>>

\* State p and currentTime.
Setup ==
  /\ pc = "setup"
  /\ p' = [vertPos |-> initAlt,
           vertVel |-> FMul[initVel, sin(firingAngle)],
           horzPos |-> Zero,
           horzVel |-> FMul[initVel, cos(firingAngle)]]
  /\ currentTime' = Zero
  /\ pc' = "check"
  /\ UNCHANGED <<inputs, locals, out, hist>>

\* The while condition; a true condition enters rk4(p, deltaTime).
LoopCheck ==
  /\ pc = "check"
  /\ IF LoopCond(currentTime, finalTime, p)
     THEN pc' = "rk4_k1" /\ entry' = p
     ELSE pc' = "done" /\ entry' = entry
  /\ UNCHANGED <<inputs, p, currentTime, locals, out, nsteps, nreports>>

Rk4K1 ==
  /\ pc = "rk4_k1"
  /\ k1' = evaluate(p)
  /\ pc' = "rk4_k2"
  /\ UNCHANGED <<inputs, p, currentTime, k2, k3, k4, out, hist>>

Rk4K2 ==
  /\ pc = "rk4_k2"
  /\ k2' = evaluateAt(p, FDiv[deltaTime, Two], k1)
  /\ pc' = "rk4_k3"
  /\ UNCHANGED <<inputs, p, currentTime, k1, k3, k4, out, hist>>

Rk4K3 ==
  /\ pc = "rk4_k3"
  /\ k3' = evaluateAt(p, FDiv[deltaTime, Two], k2)
  /\ pc' = "rk4_k4"
  /\ UNCHANGED <<inputs, p, currentTime, k1, k2, k4, out, hist>>

Rk4K4 ==
  /\ pc = "rk4_k4"
  /\ k4' = evaluateAt(p, deltaTime, k3)
  /\ pc' = "rk4_update"
  /\ UNCHANGED <<inputs, p, currentTime, k1, k2, k3, out, hist>>

\* The weighted sums and "the new state"; rk4 returns.
Rk4Update ==
  /\ pc = "rk4_update"
  /\ p' = NewState(p, deltaTime, k1, k2, k3, k4)
  /\ nsteps' = Bump(nsteps)
  /\ pc' = "advance"
  /\ UNCHANGED <<inputs, currentTime, locals, out, entry, nreports>>

\* Mutant: = for +=.
AdvanceAssign ==
  /\ pc = "advance"
  /\ currentTime' = deltaTime
  /\ pc' = "report"
  /\ UNCHANGED <<inputs, p, locals, out, hist>>

\* currentTime += deltaTime
Advance ==
  /\ pc = "advance"
  /\ currentTime' = FAdd[currentTime, deltaTime]
  /\ pc' = "report"
  /\ UNCHANGED <<inputs, p, locals, out, hist>>

\* The three output lines of the loop body.
Report ==
  /\ pc = "report"
  /\ out' = [t |-> currentTime, vertPos |-> p.vertPos, vertVel |-> p.vertVel,
             horzPos |-> p.horzPos, horzVel |-> p.horzVel]
  /\ nreports' = Bump(nreports)
  /\ pc' = "check"
  /\ UNCHANGED <<inputs, p, currentTime, locals, entry, nsteps>>

\* "End of simulation..." and return.
Finish ==
  /\ pc = "done"
  /\ pc' = "end"
  /\ UNCHANGED <<inputs, p, currentTime, locals, out, hist>>

Next ==
  \/ PromptStart \/ ParseArgs
  \/ ReadAlt \/ ReadAngle \/ ReadVel \/ ReadDt \/ ReadFinal
  \/ ToRadians \/ Setup \/ LoopCheck
  \/ Rk4K1 \/ Rk4K2 \/ Rk4K3 \/ Rk4K4 \/ Rk4Update
  \/ Advance \/ Report \/ Finish

Spec == Init /\ [][Next]_vars

\* The program is sequential and runs to the next statement.
LiveSpec == Init /\ [][Next]_vars /\ WF_vars(Next)

-----------------------------------------------------------------------------
(* rk4 as a function of the state: called on sampled states                *)

PosLits == {<<-1, 6370000, 0>>, <<-1, 1000, 0>>, <<1, 0, 0>>, <<1, 4, 0>>,
            <<1, 1000000, 0>>}
VVelLits == {<<-1, 50, 0>>, <<1, 0, 0>>, <<1, 707, 1>>}
HVelLits == {<<-1, 3, 0>>, <<1, 0, 0>>, <<1, 1, 1>>}
HPosLits == {<<1, 0, 0>>, <<1, 7, 0>>}
StepDtLits == {<<1, 0, 0>>, <<1, 1, 2>>, <<1, 1, 0>>}

StepInit ==
  /\ pc = "rk4_k1"
  /\ initAlt = Zero /\ initVel = Zero /\ firingAngle = Zero /\ finalTime = Zero
  /\ \E t \in StepDtLits : deltaTime = strtod(t)
  /\ \E t1 \in PosLits, t2 \in HPosLits, t3 \in VVelLits, t4 \in HVelLits :
       p = [vertPos |-> strtod(t1), horzPos |-> strtod(t2),
            vertVel |-> strtod(t3), horzVel |-> strtod(t4)]
  /\ entry = p
  /\ currentTime = Zero
  /\ k1 = Deriv0 /\ k2 = Deriv0 /\ k3 = Deriv0 /\ k4 = Deriv0
  /\ out = NoOut
  /\ nsteps = 0 /\ nreports = 0

StepNext == Rk4K1 \/ Rk4K2 \/ Rk4K3 \/ Rk4K4 \/ Rk4Update

StepSpec == StepInit /\ [][StepNext]_vars

-----------------------------------------------------------------------------
(* Properties                                                              *)

Rk4Pcs  == {"rk4_k1", "rk4_k2", "rk4_k3", "rk4_k4", "rk4_update"}
LoopPcs == {"check", "advance", "report", "done", "end"} \cup Rk4Pcs

\* C1: rk4 is the classical RK4 update.  k1 is the derivative of the entry
\* state, k2 and k3 are the derivatives of the entry state Euler-advanced by
\* dt/2 along k1 and k2, k4 is the derivative of the entry state
\* Euler-advanced by dt along k3; every component of the new state is the
\* entry value plus dt * (k1 + 2*k2 + 2*k3 + k4)/6 of the matching derivative
\* component; the state is not written before all four stages are computed.
C1_ClassicalRK4 ==
  LET Grav(h)  == FMul[FMul[g, FDiv[re, FAdd[re, h]]], FDiv[re, FAdd[re, h]]]
      Deriv(q) == [vertVel |-> q.vertVel, vertAcc |-> Grav(q.vertPos),
                   horzVel |-> q.horzVel, horzAcc |-> Zero]
      Euler(q, h, d) ==
                  [vertPos |-> FAdd[q.vertPos, FMul[d.vertVel, h]],
                   vertVel |-> FAdd[q.vertVel, FMul[d.vertAcc, h]],
                   horzPos |-> FAdd[q.horzPos, FMul[d.horzVel, h]],
                   horzVel |-> FAdd[q.horzVel, FMul[d.horzAcc, h]]]
      half     == FDiv[deltaTime, Two]
      Avg(c1, c2, c3, c4) ==
                  FDiv[FAdd[FAdd[c1, FAdd[FMul[Two, c2], FMul[Two, c3]]], c4], Six]
      Upd(x, c1, c2, c3, c4) == FAdd[x, FMul[Avg(c1, c2, c3, c4), deltaTime]]
      after(done) == pc \in (Rk4Pcs \cup {"advance"}) \ done
  IN  /\ pc \in Rk4Pcs => p = entry
      /\ after({"rk4_k1"}) => k1 = Deriv(entry)
      /\ after({"rk4_k1", "rk4_k2"}) => k2 = Deriv(Euler(entry, half, k1))
      /\ after({"rk4_k1", "rk4_k2", "rk4_k3"}) => k3 = Deriv(Euler(entry, half, k2))
      /\ after({"rk4_k1", "rk4_k2", "rk4_k3", "rk4_k4"}) =>
           k4 = Deriv(Euler(entry, deltaTime, k3))
      /\ pc = "advance" =>
           /\ p.vertPos = Upd(entry.vertPos, k1.vertVel, k2.vertVel, k3.vertVel, k4.vertVel)
           /\ p.vertVel = Upd(entry.vertVel, k1.vertAcc, k2.vertAcc, k3.vertAcc, k4.vertAcc)
           /\ p.horzPos = Upd(entry.horzPos, k1.horzVel, k2.horzVel, k3.horzVel, k4.horzVel)
           /\ p.horzVel = Upd(entry.horzVel, k1.horzAcc, k2.horzAcc, k3.horzAcc, k4.horzAcc)

\* A step from a state in flight has been completed and has moved the state.
C1_Witness ==
  /\ pc = "advance" /\ nsteps = 2
  /\ p.vertPos # entry.vertPos /\ p.vertVel # entry.vertVel
  /\ p.horzPos # entry.horzPos
  /\ k2 # k1 /\ k4 # k3

\* C2: the loop enters rk4 exactly when, at the loop check, currentTime <
\* finalTime and vertPos >= 0, and leaves at the first check where either
\* fails; so rk4 is never entered with vertPos negative nor with
\* currentTime >= finalTime.
C2_LoopGuard ==
  [][/\ pc = "check" /\ FLt[currentTime, finalTime] /\ FGe[p.vertPos, Zero]
          => pc' = "rk4_k1"
     /\ pc = "check" /\ ~(FLt[currentTime, finalTime] /\ FGe[p.vertPos, Zero])
          => pc' = "done"
     /\ pc # "rk4_k1" /\ pc' = "rk4_k1"
          => /\ pc = "check"
             /\ ~FLt[p.vertPos, Zero]
             /\ ~FGe[currentTime, finalTime]]_vars

\* The loop has run and was left because the projectile went below ground
\* while time remained.
C2_Witness ==
  /\ pc = "done" /\ nsteps >= 2
  /\ FLt[p.vertPos, Zero] /\ FLt[currentTime, finalTime]

\* C3: the parameters in use when rk4 is first entered are valid, whichever
\* way they were acquired: angle within 0 .. 90 degrees, time step > 0,
\* final time >= 0.
C3_ValidParameters ==
  (pc = "rk4_k1" /\ nsteps = 0) =>
     /\ FGe[firingAngle, Zero]
     /\ FLe[firingAngle, FMul[Ninety, deg2rad]]
     /\ FGt[deltaTime, Zero]
     /\ FGe[finalTime, Zero]

\* C4: once the parameters are handed to the loop, the program reaches the
\* end of the simulation.
C4_Terminates == (pc = "setup") ~> (pc = "end")

\* C5: one report per completed step, after the step and after the time has
\* been advanced.  The n-th report carries n accumulated additions of dt and
\* the state produced by the n-th step; there is no report before the first
\* step and no second step before the report of the first.
C5_ReportPerStep ==
  LET RECURSIVE Acc(_)
      Acc(n)  == IF n = 0 THEN Zero ELSE FAdd[Acc(n - 1), deltaTime]
      pending == pc \in {"advance", "report"}
      nth     == NewState(entry, deltaTime, k1, k2, k3, k4)
  IN  /\ nsteps < MaxSteps =>
            nreports = (IF pending THEN nsteps - 1 ELSE nsteps)
      /\ nreports = 0 => out = NoOut
      /\ (pc \in {"check", "done", "end"} /\ 1 <= nreports /\ nreports < MaxSteps) =>
            out = [t |-> Acc(nreports),
                   vertPos |-> nth.vertPos, vertVel |-> nth.vertVel,
                   horzPos |-> nth.horzPos, horzVel |-> nth.horzVel]

\* The third report has been written in a run that moves.
C5_Witness ==
  /\ pc = "check" /\ nreports = 3 /\ nsteps = 3
  /\ out.t # Zero /\ out.vertPos # initAlt /\ out.horzPos # Zero

\* C6: rk4 with dt = 0 leaves all four fields unchanged, for every state
\* with vertPos > -re.
C6_ZeroStep ==
  (pc = "advance" /\ deltaTime = Zero) =>
     /\ p.vertPos = entry.vertPos /\ p.horzPos = entry.horzPos
     /\ p.vertVel = entry.vertVel /\ p.horzVel = entry.horzVel

\* A zero step has been taken from a moving state below sea level.
C6_Witness ==
  /\ pc = "advance" /\ deltaTime = Zero
  /\ FLt[entry.vertPos, Zero] /\ FGt[FAdd[re, entry.vertPos], Zero]
  /\ entry.vertVel # Zero /\ entry.horzVel # Zero
  /\ k1.vertAcc # Zero

\* C7 (as stated): computeHorzAcc is 0 for every state; horzVel stays equal
\* to the initial horizontal velocity through any sequence of steps; each
\* step changes horzPos by exactly horzVel * dt.
C7_ExactHorizontal ==
  /\ pc \in LoopPcs =>
       /\ k1.horzAcc = Zero /\ k2.horzAcc = Zero
       /\ k3.horzAcc = Zero /\ k4.horzAcc = Zero
       /\ p.horzVel = FMul[initVel, cos(firingAngle)]
  /\ pc = "advance" =>
       p.horzPos = FAdd[entry.horzPos, FMul[entry.horzVel, deltaTime]]

\* C7 (amended): computeHorzAcc is 0 for every state and horzVel stays equal
\* to the initial horizontal velocity; each step adds w * dt to horzPos,
\* where w = (horzVel + 2*(horzVel + horzVel) + horzVel)/6 as computed in
\* floating point, which is horzVel up to rounding (relative error at most
\* 2^(2 - Prec)), not always horzVel itself.
C7_HorizontalUpToRounding ==
  LET v == entry.horzVel
      w == FDiv[FAdd[FAdd[v, FMul[Two, FAdd[v, v]]], v], Six]
      err == FSub[w, v]
      mag(x) == IF Sign[x] = -1 THEN FNeg[x] ELSE x
      tol == FMul[mag(v), [s |-> 1, m |-> 2^(Prec - 1), e |-> 3 - 2 * Prec]]
  IN  /\ pc \in LoopPcs =>
           /\ k1.horzAcc = Zero /\ k2.horzAcc = Zero
           /\ k3.horzAcc = Zero /\ k4.horzAcc = Zero
           /\ p.horzVel = FMul[initVel, cos(firingAngle)]
      /\ pc = "advance" =>
           /\ p.horzPos = FAdd[entry.horzPos, FMul[w, deltaTime]]
           /\ FLe[mag(err), tol]

\* Two steps have been taken with a horizontal velocity whose weighted
\* average does not round back to it.
C7_Witness ==
  /\ pc = "advance" /\ nsteps = 2 /\ deltaTime # Zero
  /\ entry.horzVel # Zero
  /\ p.horzPos # FAdd[entry.horzPos, FMul[entry.horzVel, deltaTime]]

\* C8: in a run whose horizontal velocity is non-negative, each reported
\* horzPos is >= the one reported before it, the first being >= 0.
C8_HorzPosMonotone ==
  (pc = "report" /\ FGe[p.horzVel, Zero]) =>
     FGe[p.horzPos, IF nreports = 0 THEN Zero ELSE out.horzPos]

\* C9 (as stated): the loop is left whenever vertPos at the check is <= 0,
\* 0 included, and vertPos is negative only as the result of the final step.
C9_StopsAtNonPositive ==
  /\ pc \in Rk4Pcs => FGt[entry.vertPos, Zero]
  /\ (pc \in LoopPcs /\ FLt[p.vertPos, Zero]) =>
        (nsteps >= 1 /\ pc \in {"advance", "report", "check", "done", "end"})

\* C9 (amended): the loop is left whenever vertPos at the check is negative;
\* at vertPos exactly 0 it goes on while time remains.  vertPos is negative
\* only as the initial altitude, in which case no step runs, or as the
\* result of the last step, after which no step runs.
C9_StopsBelowGround ==
  /\ [](pc \in Rk4Pcs => ~FLt[entry.vertPos, Zero])
  /\ []((pc \in LoopPcs /\ FLt[p.vertPos, Zero]) =>
          /\ pc \in {"advance", "report", "check", "done", "end"}
          /\ (nsteps = 0 => p.vertPos = initAlt /\ pc \in {"check", "done", "end"})
          /\ (nsteps >= 1 => p = NewState(entry, deltaTime, k1, k2, k3, k4)))
  /\ [][(pc = "check" /\ FLt[p.vertPos, Zero]) => pc' = "done"]_vars
  /\ [][(pc = "check" /\ p.vertPos = Zero /\ FLt[currentTime, finalTime])
           => pc' = "rk4_k1"]_vars

\* A step is being taken from altitude exactly 0.
C9_Witness ==
  /\ pc = "rk4_update" /\ entry.vertPos = Zero /\ p.vertPos = Zero
  /\ FLt[currentTime, finalTime]

\* The state right after the first step of the run with altitude 0,
\* velocity 100 m/s, angle 45 degrees and dt = 0.01.
Scenario ==
  /\ pc = "advance" /\ nsteps = 1
  /\ initAlt = Zero /\ initVel = Dec(1, 100, 0)
  /\ firingAngle = FMul[Dec(1, 45, 0), deg2rad]
  /\ deltaTime = Dec(1, 1, 2)

\* C10 (as stated): in the scenario the step yields vertVel = initial
\* vertical velocity minus g * 0.01, horzVel unchanged, horzPos = horzVel *
\* 0.01; the initial components are 70.6996 and horzPos is 0.706996.
\* Decimal figures are compared to within one unit of their last-but-one
\* digit shown.
C10_ScenarioAsStated ==
  LET mag(x) == IF Sign[x] = -1 THEN FNeg[x] ELSE x
      Near(x, y, tol) == FLe[mag(FSub[x, y]), tol]
  IN  Scenario =>
        /\ entry.vertPos = Zero /\ entry.horzPos = Zero
        /\ Near(p.vertVel, FSub[entry.vertVel, FMul[g, deltaTime]], Dec(1, 1, 3))
        /\ p.horzVel = entry.horzVel
        /\ Near(p.horzPos, FMul[p.horzVel, deltaTime], Dec(1, 1, 5))
        /\ Near(entry.vertVel, Dec(1, 706996, 4), Dec(1, 1, 3))
        /\ Near(entry.horzVel, Dec(1, 706996, 4), Dec(1, 1, 3))
        /\ Near(p.horzPos, Dec(1, 706996, 6), Dec(1, 1, 5))

\* C10 (amended): in the scenario the step yields vertVel = initial vertical
\* velocity plus g * 0.01 (g is negative, so vertVel drops to about 70.6126),
\* horzVel unchanged, horzPos = horzVel * 0.01; the initial components are
\* both 70.7107 (100 sin 45 and 100 cos 45, equal up to rounding) and horzPos
\* is 0.707107, to the same tolerances.
C10_ScenarioAmended ==
  LET mag(x) == IF Sign[x] = -1 THEN FNeg[x] ELSE x
      Near(x, y, tol) == FLe[mag(FSub[x, y]), tol]
  IN  Scenario =>
        /\ entry.vertPos = Zero /\ entry.horzPos = Zero
        /\ Near(p.vertVel, FAdd[entry.vertVel, FMul[g, deltaTime]], Dec(1, 1, 3))
        /\ Near(p.vertVel, Dec(1, 706126, 4), Dec(1, 1, 3))
        /\ p.horzVel = entry.horzVel
        /\ Near(p.horzPos, FMul[p.horzVel, deltaTime], Dec(1, 1, 5))
        /\ Near(entry.vertVel, Dec(1, 707107, 4), Dec(1, 1, 3))
        /\ Near(entry.horzVel, Dec(1, 707107, 4), Dec(1, 1, 3))
        /\ Near(entry.vertVel, entry.horzVel, Dec(1, 1, 3))
        /\ Near(p.horzPos, Dec(1, 707107, 6), Dec(1, 1, 5))

\* The scenario's first step has been taken.
C10_Witness ==
  /\ Scenario
  /\ FLt[p.vertVel, entry.vertVel] /\ FGt[p.vertPos, Zero]
  /\ FGt[p.horzPos, Zero]

=============================================================================
